---- MODULE Spec2Model ----
(***************************************************************************)
(* Canny edge detector (canny_edge_detector.py).                           *)
(*                                                                         *)
(* Arrays are functions over the pixel grid.  Floating-point arrays are    *)
(* kept as exact rationals:                                                *)
(*   gauss                 [num, den]         value num[p] / den           *)
(*   gradient_magnitude    [sq, den]          value sqrt(sq[p] / den)      *)
(*   potential_edges       [sq, den, scale]   value scale*sqrt(sq[p]/den)  *)
(*   gradient_angle        [y, x, eps, nan]   value atan2(y[p], x[p]) in   *)
(*                         degrees, where x[p] = 0 stands for the          *)
(*                         substituted 0.000001 of sign eps[p]             *)
(* den = 0 is the result of a division 0/0 or of 0 * inf: the whole array  *)
(* is NaN, and every comparison with one of its elements is false.         *)
(* Float rounding is not modelled: arithmetic is exact.                    *)
(***************************************************************************)
EXTENDS Integers, Sequences, FiniteSets, TLC

VARIABLES pc, image, gauss, gradient_magnitude, gradient_angle,
          potential_edges, upper_threshold, strong_edges, weak_edges,
          edges, pixel_queue, check_pixel, accessed, promotions, otsu

vars == <<pc, image, gauss, gradient_magnitude, gradient_angle,
          potential_edges, upper_threshold, strong_edges, weak_edges,
          edges, pixel_queue, check_pixel, accessed, promotions, otsu>>

(***************************************************************************)
(* Bounds of the model.                                                    *)
(***************************************************************************)
\* image height
H == 5
\* image width
W == 5
\* height of the brighter of the two light spots of an input image
MaxHeight == 2
\* number of weak pixels in a strong/weak pair given to edge_hysteresis
\* directly
MaxWeak == 1
\* number of pixels labelled one by one in a strong/weak pair whose queue is
\* emptied in any order
MaxMarks == 2
\* number of pixels of an image given to otsu_threshold directly
MaxOtsuPixels == 3

Grid == (0 .. H - 1) \X (0 .. W - 1)

(***************************************************************************)
(* Arithmetic helpers.                                                     *)
(***************************************************************************)
Abs(x) == IF x < 0 THEN -x ELSE x

Max(S) == CHOOSE m \in S : \A x \in S : x <= m

\* a.max() of an array of numbers
ArrayMax(a) == Max({a[p] : p \in DOMAIN a})

\* a / b > c / d for a, c >= 0 and b, d > 0, by the continued-fraction
\* expansion of both sides (no product that could leave the integer range)
RECURSIVE FracGT(_, _, _, _)
FracGT(a, b, c, d) ==
    IF a \div b # c \div d THEN a \div b > c \div d
    ELSE IF a % b = 0 THEN FALSE
    ELSE IF c % d = 0 THEN TRUE
    ELSE FracGT(d, c % d, b, a % b)

\* sum of the elements of a sequence of numbers
RECURSIVE SumSeq(_, _)
SumSeq(q, k) == IF k > Len(q) THEN 0 ELSE q[k] + SumSeq(q, k + 1)

\* the rows and the columns of an array (its shape)
RowsOf(a) == {p[1] : p \in DOMAIN a}
ColsOf(a) == {p[2] : p \in DOMAIN a}
NRows(a)  == Cardinality(RowsOf(a))
NCols(a)  == Cardinality(ColsOf(a))

\* np.zeros(shape)
Zeros(shape) == [p \in shape |-> 0]

(***************************************************************************)
(* gaussian_smoothing, for the sigma = 1.0 that canny passes by default.   *)
(***************************************************************************)
\* np.ceil(2.54 * sigma) for sigma = 1.0
ceil_sigma == 3

kernel_shape == IF ceil_sigma % 2 = 1 THEN ceil_sigma ELSE ceil_sigma + 1

grid_shape == kernel_shape \div 2

\* exp(-1 / (2 * sigma * sigma)) = 0.6065... taken as the rational
\* ExpNum / ExpDen (the float32 of line 16 is not exact either); the factor
\* 1 / (2 * pi * sigma * sigma) common to all coefficients cancels in the
\* rescale by the maximum
ExpNum == 3
ExpDen == 5

KernelIdx(size) == (0 .. size - 1) \X (0 .. size - 1)

\* the indices of a square kernel of side `size`, row by row
KernelSeq(size) == [k \in 1 .. size * size |-> <<(k - 1) \div size, (k - 1) % size>>]

\* the kernel of lines 16-21, scaled by ExpDen ^ (2 * grid_shape ^ 2)
kernel ==
    [o \in KernelIdx(kernel_shape) |->
        LET i_k == o[1] - grid_shape
            j_k == o[2] - grid_shape
            d2  == i_k * i_k + j_k * j_k
        IN  (ExpNum ^ d2) * (ExpDen ^ (2 * grid_shape * grid_shape - d2))]

\* scipy.ndimage's default boundary mode 'reflect': (d c b a | a b c d | d c b a)
Reflect(k, n) == IF k < 0 THEN -k - 1 ELSE IF k >= n THEN 2 * n - 1 - k ELSE k

\* nd.filters.convolve(a, k) for a square kernel k of odd side 2 * g + 1
convolve(a, k, g) ==
    LET rows == NRows(a)
        cols == NCols(a)
        at == KernelSeq(2 * g + 1)
    IN  [p \in DOMAIN a |->
            SumSeq([n \in DOMAIN at |->
                      k[at[n]] * a[<<Reflect(p[1] + g - at[n][1], rows),
                                     Reflect(p[2] + g - at[n][2], cols)>>]], 1)]

gaussian_smoothing(img) ==
    LET smoothed_image == convolve(img, kernel, grid_shape)
    IN  \* smoothed_image *= 1.0 / smoothed_image.max(): a maximum of 0 gives
        \* 1.0 / 0 = inf and 0 * inf = NaN in every element
        [num |-> smoothed_image, den |-> ArrayMax(smoothed_image)]

(***************************************************************************)
(* calculate_gradients                                                     *)
(***************************************************************************)
kernel_horizontal ==
    [o \in KernelIdx(3) |->
        << <<1, 2, 1>>, <<0, 0, 0>>, <<-1, -2, -1>> >>[o[1] + 1][o[2] + 1]]

\* np.flip(kernel_horizontal.T, axis=0)
kernel_vertical == [o \in KernelIdx(3) |-> kernel_horizontal[<<o[2], 2 - o[1]>>]]

calculate_gradients(g) ==
    IF g.den = 0
    THEN \* every element of the smoothed image is NaN, and so are both outputs
         [magnitude |-> [sq |-> Zeros(DOMAIN g.num), den |-> 0],
          angle |-> [y |-> Zeros(DOMAIN g.num), x |-> Zeros(DOMAIN g.num),
                     eps |-> Zeros(DOMAIN g.num), nan |-> TRUE]]
    ELSE LET new_image_horizontal == convolve(g.num, kernel_horizontal, 1)
             new_image_vertical == convolve(g.num, kernel_vertical, 1)
             square == [p \in DOMAIN g.num |->
                          new_image_horizontal[p] * new_image_horizontal[p]
                          + new_image_vertical[p] * new_image_vertical[p]]
         IN  \* gradient_magnitude / gradient_magnitude.max(): 0 / 0 = NaN when
             \* both responses vanish everywhere
             [magnitude |-> [sq |-> square, den |-> ArrayMax(square)],
              \* new_image_vertical[new_image_vertical == 0] = 0.000001
              angle |-> [y |-> new_image_horizontal, x |-> new_image_vertical,
                         eps |-> [p \in DOMAIN g.num |->
                                    IF new_image_vertical[p] = 0 THEN 1 ELSE 0],
                         nan |-> FALSE]]

(***************************************************************************)
(* non_maximum_suppression                                                 *)
(***************************************************************************)
\* gradient_angle[i, j] < 0: atan2(y, x) is negative exactly when y is
AngleNegative(ang, p) == ~ang.nan /\ ang.y[p] < 0

\* gradient_angle[gradient_angle < 0] += 180, in place: atan2(y, x) + 180 is
\* the direction of (-y, -x)
FoldAngle(ang) ==
    [y   |-> [p \in DOMAIN ang.y |-> IF AngleNegative(ang, p) THEN -ang.y[p] ELSE ang.y[p]],
     x   |-> [p \in DOMAIN ang.y |-> IF AngleNegative(ang, p) THEN -ang.x[p] ELSE ang.x[p]],
     eps |-> [p \in DOMAIN ang.y |-> IF AngleNegative(ang, p) THEN -ang.eps[p] ELSE ang.eps[p]],
     nan |-> ang.nan]

\* the branch of lines 51-62 taken for the angle at p: 1 for [0, 22.5) and
\* [157.5, 180], 2 for [22.5, 67.5), 3 for [67.5, 112.5), 4 for
\* [112.5, 157.5), 0 when no branch is taken (a NaN or a negative angle).
\* tan(22.5 deg) = sqrt(2) - 1, so y < tan(22.5) * |x| iff (y + |x|)^2 < 2 x^2.
AngleBranch(ang, p) ==
    LET y == ang.y[p]
        x == Abs(ang.x[p])
    IN  IF ang.nan \/ y < 0 THEN 0
        ELSE IF y = 0 THEN 1
        ELSE IF x = 0 THEN 3
        ELSE IF (y + x) * (y + x) < 2 * x * x THEN 1
        ELSE IF (y + x) * (y + x) < 2 * y * y THEN 3
        ELSE IF ang.x[p] > 0 THEN 2
        ELSE 4

\* the two neighbours (a, b) compared with pixel (i, j) in each branch
NeighbourPair(branch, i, j) ==
    CASE branch = 1 -> << <<i, j - 1>>, <<i, j + 1>> >>
      [] branch = 2 -> << <<i + 1, j + 1>>, <<i - 1, j - 1>> >>
      [] branch = 3 -> << <<i - 1, j>>, <<i + 1, j>> >>
      [] branch = 4 -> << <<i + 1, j - 1>>, <<i - 1, j + 1>> >>

\* (gradient_magnitude[i, j] >= a) and (gradient_magnitude[i, j] >= b)
IsLocalMax(mag, ang, p) ==
    LET branch == AngleBranch(ang, p)
        ab == NeighbourPair(branch, p[1], p[2])
    IN  /\ mag.den # 0
        /\ IF branch = 0
           THEN \* a = b = 1.0
                mag.sq[p] >= mag.den
           ELSE mag.sq[p] >= mag.sq[ab[1]] /\ mag.sq[p] >= mag.sq[ab[2]]

Interior(a) ==
    LET rows == NRows(a)
        cols == NCols(a)
    IN  {p \in DOMAIN a : /\ 1 <= p[1] /\ p[1] <= rows - 2
                          /\ 1 <= p[2] /\ p[2] <= cols - 2}

\* returns the new array and the angle array as the call leaves it
non_maximum_suppression(mag, ang) ==
    LET folded == FoldAngle(ang)
        inside == Interior(mag.sq)
        kept == [p \in DOMAIN mag.sq |->
                   IF p \in inside /\ IsLocalMax(mag, folded, p)
                   THEN mag.sq[p] ELSE 0]
    IN  \* potential_edges / potential_edges.max(): 0 / 0 = NaN when nothing is kept
        [potential_edges |-> [sq |-> kept, den |-> ArrayMax(kept), scale |-> 1],
         gradient_angle |-> folded]

(***************************************************************************)
(* otsu_threshold                                                          *)
(***************************************************************************)
\* the largest value of np.uint8 and the number of histogram buckets
MaxLevel == 255
Buckets == 256

\* what astype(np.uint8) makes of a NaN is not defined; the values a build
\* is taken to produce for it
UndefinedCast == {0, MaxLevel}

\* the largest q in lo .. hi with q <= MaxLevel * sqrt(s / m), given that lo
\* is such a q and hi + 1 is not
RECURSIVE FloorScaledRoot(_, _, _, _)
FloorScaledRoot(lo, hi, s, m) ==
    IF lo = hi THEN lo
    ELSE LET mid == (lo + hi + 1) \div 2
         IN  IF FracGT(mid * mid, MaxLevel * MaxLevel, s, m)
             THEN FloorScaledRoot(lo, mid - 1, s, m)
             ELSE FloorScaledRoot(mid, hi, s, m)

\* image_norm is NaN before the cast: the image is NaN or its maximum is 0
CastsNaN(img) == img.den = 0 \/ ArrayMax(img.sq) = 0

\* the values the cast of line 76 may produce for NaN (one, unused, value
\* when nothing is NaN)
CastsFor(img) == IF CastsNaN(img) THEN UndefinedCast ELSE {0}

\* image_norm = image.copy(); image_norm *= 255 / image_norm.max();
\* image_norm.astype(np.uint8).  A NaN image, or a maximum of 0 (255 / 0 =
\* inf, 0 * inf = NaN), leaves NaN to be cast: every element becomes `cast`.
Quantize(img, cast) ==
    LET m == ArrayMax(img.sq)
        nan == CastsNaN(img)
    IN  [p \in DOMAIN img.sq |->
           IF nan THEN cast ELSE FloorScaledRoot(0, MaxLevel, img.sq[p], m)]

\* lines 77-85: the histogram of the quantized image
Histogram(image_norm) ==
    LET present == {image_norm[p] : p \in DOMAIN image_norm}
    IN  [v \in 0 .. Buckets - 1 |->
            IF v \in present
            THEN Cardinality({p \in DOMAIN image_norm : image_norm[p] = v})
            ELSE 0]

\* lines 87-88: the sum of i * histogram[i] for i in lo .. hi, by halves
RECURSIVE WeightedSum(_, _, _)
WeightedSum(histogram, lo, hi) ==
    IF lo = hi THEN lo * histogram[lo]
    ELSE LET mid == (lo + hi) \div 2
         IN  WeightedSum(histogram, lo, mid) + WeightedSum(histogram, mid + 1, hi)

\* d * d / n for n > 0 as the mixed number <<w, r, n>> = w + r / n with
\* 0 <= r < n, without forming d * d
SquareOver(d, n) ==
    LET k == d \div n
        r == d % n
    IN  <<d * k + (d * r) \div n, (d * r) % n, n>>

\* a > b for two such mixed numbers
MixedGT(a, b) == a[1] > b[1] \/ (a[1] = b[1] /\ a[2] * b[3] > b[2] * a[3])

\* line 80: the state of the search before candidate 0.  max_var is a mixed
\* number; replaced_q2 records whether the candidate that set threshold had
\* q2 = 0 replaced by 1.
OtsuStart(img, cast) ==
    LET image_norm == Quantize(img, cast)
        histogram == Histogram(image_norm)
    IN  [histogram |-> histogram,
         size |-> NRows(image_norm) * NCols(image_norm),
         sum |-> WeightedSum(histogram, 0, Buckets - 1),
         t |-> 0, q1 |-> 0, sumB |-> 0,
         threshold |-> 0, max_var |-> <<0, 0, 1>>, replaced_q2 |-> FALSE]

\* lines 90-104: one iteration of the search, for candidate s.t
OtsuIteration(s) ==
    LET t == s.t
        q1 == s.q1 + s.histogram[t]
        q2 == s.size - q1
        sumB == s.sumB + t * s.histogram[t]
        q2r == IF q2 = 0 THEN 1 ELSE q2
        \* u1 - u2 = diff / (q1 * q2r)
        diff == sumB * q2r - (s.sum - sumB) * q1
        \* sigma_square = q1 * q2r * (u1 - u2) ** 2
        sigma_square == SquareOver(Abs(diff), q1 * q2r)
    IN  IF q1 = 0
        THEN [s EXCEPT !.t = t + 1, !.q1 = q1]
        ELSE IF MixedGT(sigma_square, s.max_var)
        THEN [s EXCEPT !.t = t + 1, !.q1 = q1, !.sumB = sumB,
                       !.threshold = t, !.max_var = sigma_square,
                       !.replaced_q2 = (q2 = 0)]
        ELSE [s EXCEPT !.t = t + 1, !.q1 = q1, !.sumB = sumB]

\* n iterations of the loop of line 90, by halves
RECURSIVE OtsuLoop(_, _)
OtsuLoop(s, n) ==
    IF n = 0 THEN s
    ELSE IF n = 1 THEN OtsuIteration(s)
    ELSE LET half == OtsuLoop(s, n \div 2)
         IN  IF half.t <= Buckets THEN OtsuLoop(half, n - n \div 2) ELSE half

otsu_threshold(img, cast) == OtsuLoop(OtsuStart(img, cast), Buckets).threshold

(***************************************************************************)
(* double_threshold                                                        *)
(***************************************************************************)
\* the labels of a strong and of a weak edge
STRONG == 255
WEAK == 50

\* potential_edges *= 255 / potential_edges.max(), in place
RescaleInPlace(pe) ==
    [sq |-> pe.sq,
     den |-> IF pe.den = 0 THEN 0 ELSE ArrayMax(pe.sq),
     scale |-> MaxLevel]

\* potential_edges[i, j] > threshold, for a rescaled array and an integer
ValueAbove(pe, p, threshold) ==
    /\ pe.den # 0
    /\ FracGT(pe.sq[p], pe.den, threshold * threshold, pe.scale * pe.scale)

\* threshold > potential_edges[i, j]
ValueBelow(pe, p, threshold) ==
    /\ pe.den # 0
    /\ FracGT(threshold * threshold, pe.scale * pe.scale, pe.sq[p], pe.den)

\* potential_edges[i, j] >= threshold, and threshold >= potential_edges[i, j]
ValueAtLeast(pe, p, threshold) == pe.den # 0 /\ ~ValueBelow(pe, p, threshold)
ValueAtMost(pe, p, threshold) == pe.den # 0 /\ ~ValueAbove(pe, p, threshold)

\* returns both maps, the thresholds and potential_edges as the call leaves it
double_threshold(pe, mag, cast) ==
    LET upper == otsu_threshold(pe, cast)
        lower == upper \div 3
        rescaled == RescaleInPlace(pe)
    IN  [strong_edges |->
            [p \in DOMAIN mag.sq |-> IF ValueAbove(rescaled, p, upper) THEN STRONG ELSE 0],
         weak_edges |->
            [p \in DOMAIN mag.sq |->
                IF /\ ~ValueAbove(rescaled, p, upper)
                   /\ ValueAtMost(rescaled, p, upper)
                   /\ ValueAtLeast(rescaled, p, lower)
                THEN WEAK ELSE 0],
         potential_edges |-> rescaled,
         upper_threshold |-> upper,
         lower_threshold |-> lower]

(***************************************************************************)
(* edge_hysteresis                                                         *)
(***************************************************************************)
\* lines 129-137: the 8 coordinates around `coordinate`, in the order built;
\* nothing keeps them inside the array
get_neighbours(coordinate) ==
    LET offsets == << <<-1, -1>>, <<-1, 0>>, <<-1, 1>>, <<0, -1>>,
                      <<0, 1>>, <<1, -1>>, <<1, 0>>, <<1, 1>> >>
    IN  [k \in 1 .. 8 |-> <<coordinate[1] + offsets[k][1], coordinate[2] + offsets[k][2]>>]

\* numpy takes an index k of an axis of length n when -n <= k < n, counting a
\* negative one from the end, and raises IndexError otherwise
IndexInBounds(a, n) ==
    /\ -NRows(a) <= n[1] /\ n[1] < NRows(a)
    /\ -NCols(a) <= n[2] /\ n[2] < NCols(a)

ElementAt(a, n) == <<n[1] % NRows(a), n[2] % NCols(a)>>

\* the coordinates of an array in the order of the loops of lines 138-139
RowMajor(a) == [k \in 1 .. NRows(a) * NCols(a) |-> <<(k - 1) \div NCols(a), (k - 1) % NCols(a)>>]

\* lines 145-150 for the neighbours nbrs[k], nbrs[k + 1], ...: s carries the
\* working map, the queue, the coordinates indexed so far, the promotions
\* made, and whether an index raised (which ends the call)
RECURSIVE VisitNeighbours(_, _, _)
VisitNeighbours(s, nbrs, k) ==
    IF k > Len(nbrs) THEN s
    ELSE LET neighbour == nbrs[k]
             seen == [s EXCEPT !.accessed = @ \cup {neighbour}]
             at == ElementAt(s.edges, neighbour)
         IN  IF ~IndexInBounds(s.edges, neighbour)
             THEN [seen EXCEPT !.raised = TRUE]
             ELSE IF s.edges[at] = WEAK
             THEN VisitNeighbours(
                      [seen EXCEPT !.edges[at] = STRONG,
                                   !.pixel_queue = Append(@, neighbour),
                                   !.promotions[at] = @ + 1],
                      nbrs, k + 1)
             ELSE VisitNeighbours(seen, nbrs, k + 1)

\* line 151 left out: the weak pixels stay in the map
KeepWeak(e) == e

\* line 151 written with >= instead of ==: the edges go with the weak pixels
DropWeakAndStrong(e) == [p \in DOMAIN e |-> IF e[p] >= WEAK THEN 0 ELSE e[p]]

\* line 151: edges[edges == 50.0] = 0
DropWeak(e) == [p \in DOMAIN e |-> IF e[p] = WEAK THEN 0 ELSE e[p]]

(***************************************************************************)
(* State.  A local that has not been assigned yet holds Unset.             *)
(***************************************************************************)
Unset == <<>>

\* an input image: a background level, a spot of some height and a spot of
\* height 1, each on a pixel or left out
SpotPlaces == Grid \cup {Unset}

ImageOf(base, bright, height, dim) ==
    [p \in Grid |-> base + (IF p = bright THEN height ELSE 0)
                         + (IF p = dim THEN 1 ELSE 0)]

Init ==
    /\ pc = "gaussian_smoothing"
    /\ \E base \in {0, 1}, bright \in SpotPlaces, height \in 1 .. MaxHeight,
          dim \in SpotPlaces :
          image = ImageOf(base, bright, height, dim)
    /\ gauss = Unset
    /\ gradient_magnitude = Unset
    /\ gradient_angle = Unset
    /\ potential_edges = Unset
    /\ upper_threshold = Unset
    /\ strong_edges = Unset
    /\ weak_edges = Unset
    /\ edges = Unset
    /\ pixel_queue = Unset
    /\ check_pixel = Unset
    /\ accessed = Unset
    /\ promotions = Unset
    /\ otsu = Unset

(***************************************************************************)
(* canny: one action per call of line 157-161.                             *)
(***************************************************************************)
canny_gaussian_smoothing ==
    /\ pc = "gaussian_smoothing"
    /\ gauss' = gaussian_smoothing(image)
    /\ pc' = "calculate_gradients"
    /\ UNCHANGED <<image, gradient_magnitude, gradient_angle, potential_edges,
                   upper_threshold, strong_edges, weak_edges, edges, pixel_queue,
                   check_pixel, accessed, promotions, otsu>>

canny_calculate_gradients ==
    /\ pc = "calculate_gradients"
    /\ LET r == calculate_gradients(gauss)
       IN  /\ gradient_magnitude' = r.magnitude
           /\ gradient_angle' = r.angle
    /\ pc' = "non_maximum_suppression"
    /\ UNCHANGED <<image, gauss, potential_edges, upper_threshold, strong_edges,
                   weak_edges, edges, pixel_queue, check_pixel, accessed,
                   promotions, otsu>>

canny_non_maximum_suppression ==
    /\ pc = "non_maximum_suppression"
    /\ LET r == non_maximum_suppression(gradient_magnitude, gradient_angle)
       IN  /\ potential_edges' = r.potential_edges
           /\ gradient_angle' = r.gradient_angle
    /\ pc' = "double_threshold"
    /\ UNCHANGED <<image, gauss, gradient_magnitude, upper_threshold, strong_edges,
                   weak_edges, edges, pixel_queue, check_pixel, accessed,
                   promotions, otsu>>

canny_double_threshold ==
    /\ pc = "double_threshold"
    /\ \E cast \in CastsFor(potential_edges) :
          LET r == double_threshold(potential_edges, gradient_magnitude, cast)
          IN  /\ potential_edges' = r.potential_edges
              /\ upper_threshold' = r.upper_threshold
              /\ strong_edges' = r.strong_edges
              /\ weak_edges' = r.weak_edges
    /\ pc' = "edge_hysteresis"
    /\ UNCHANGED <<image, gauss, gradient_magnitude, gradient_angle, edges,
                   pixel_queue, check_pixel, accessed, promotions, otsu>>

(***************************************************************************)
(* edge_hysteresis: the seeding, one action per iteration of the work      *)
(* loop, and the return.                                                   *)
(***************************************************************************)
\* lines 127-141
hysteresis_seed ==
    /\ pc = "edge_hysteresis"
    /\ edges' = [p \in DOMAIN strong_edges |-> strong_edges[p] + weak_edges[p]]
    /\ pixel_queue' = SelectSeq(RowMajor(strong_edges), LAMBDA p : strong_edges[p] # 0)
    /\ check_pixel' = Unset
    /\ accessed' = {}
    /\ promotions' = Zeros(DOMAIN strong_edges)
    /\ pc' = "work_loop"
    /\ UNCHANGED <<image, gauss, gradient_magnitude, gradient_angle, potential_edges,
                   upper_threshold, strong_edges, weak_edges, otsu>>

\* lines 142-150, taking the element at position k of the queue and
\* visiting its neighbours in the order nbrs gives
PopAt(k, order) ==
    /\ pc = "work_loop"
    /\ k \in 1 .. Len(pixel_queue)
    /\ LET taken == pixel_queue[k]
           rest == SubSeq(pixel_queue, 1, k - 1) \o SubSeq(pixel_queue, k + 1, Len(pixel_queue))
           all == get_neighbours(taken)
           r == VisitNeighbours(
                    [edges |-> edges, pixel_queue |-> rest, accessed |-> {},
                     promotions |-> promotions, raised |-> FALSE],
                    [i \in 1 .. 8 |-> all[order[i]]], 1)
       IN  /\ check_pixel' = taken
           /\ edges' = r.edges
           /\ pixel_queue' = r.pixel_queue
           /\ accessed' = r.accessed
           /\ promotions' = r.promotions
           /\ pc' = IF r.raised THEN "IndexError" ELSE "work_loop"
    /\ UNCHANGED <<image, gauss, gradient_magnitude, gradient_angle, potential_edges,
                   upper_threshold, strong_edges, weak_edges, otsu>>

\* queue.Queue is first in, first out, and the neighbours come as built
hysteresis_pop == PopAt(1, [i \in 1 .. 8 |-> i])

\* lines 151-152
hysteresis_return ==
    /\ pc = "work_loop"
    /\ pixel_queue = <<>>
    /\ edges' = DropWeak(edges)
    /\ pc' = "returned"
    /\ UNCHANGED <<image, gauss, gradient_magnitude, gradient_angle, potential_edges,
                   upper_threshold, strong_edges, weak_edges, pixel_queue,
                   check_pixel, accessed, promotions, otsu>>

edge_hysteresis == hysteresis_seed \/ hysteresis_pop \/ hysteresis_return

Next ==
    \/ canny_gaussian_smoothing
    \/ canny_calculate_gradients
    \/ canny_non_maximum_suppression
    \/ canny_double_threshold
    \/ edge_hysteresis

Spec == Init /\ [][Next]_vars

(***************************************************************************)
(* edge_hysteresis called on its own, with a pair of maps that labels each *)
(* pixel strong, weak or neither.                                          *)
(***************************************************************************)
\* the call with the strong and the weak map of a label map
HystStart(label) ==
    /\ pc = "edge_hysteresis"
    /\ strong_edges = [p \in DOMAIN label |-> IF label[p] = STRONG THEN STRONG ELSE 0]
    /\ weak_edges = [p \in DOMAIN label |-> IF label[p] = WEAK THEN WEAK ELSE 0]
    /\ image = Unset
    /\ gauss = Unset
    /\ gradient_magnitude = Unset
    /\ gradient_angle = Unset
    /\ potential_edges = Unset
    /\ upper_threshold = Unset
    /\ edges = Unset
    /\ pixel_queue = Unset
    /\ check_pixel = Unset
    /\ accessed = Unset
    /\ promotions = Unset
    /\ otsu = Unset

\* a background label, one strong pixel and up to MaxWeak weak pixels, each
\* on a pixel or left out
SeedMap(background, strong, weak) ==
    [p \in Grid |->
        IF p = strong THEN STRONG
        ELSE IF \E k \in DOMAIN weak : weak[k] = p THEN WEAK
        ELSE background]

InitHyst ==
    \E background \in {0, WEAK}, strong \in SpotPlaces,
       weak \in [1 .. MaxWeak -> SpotPlaces] :
       HystStart(SeedMap(background, strong, weak))

SpecHyst == InitHyst /\ [][edge_hysteresis]_vars

\* an empty background and up to MaxMarks pixels labelled one by one, a
\* later label replacing an earlier one
LabelMap(background, marks) ==
    [p \in Grid |->
        IF \E k \in DOMAIN marks : marks[k][1] = p
        THEN marks[Max({k \in DOMAIN marks : marks[k][1] = p})][2]
        ELSE background]

\* the same call with the queue emptied in any order and the neighbours
\* visited as built or in reverse
NeighbourOrders == {[i \in 1 .. 8 |-> i], [i \in 1 .. 8 |-> 9 - i]}

hysteresis_pop_any ==
    \E k \in 1 .. Len(pixel_queue), order \in NeighbourOrders : PopAt(k, order)

InitHystAnyOrder ==
    \E marks \in [1 .. MaxMarks -> SpotPlaces \X {0, WEAK, STRONG}] :
       HystStart(LabelMap(0, marks))

NextHystAnyOrder == hysteresis_seed \/ hysteresis_pop_any \/ hysteresis_return

SpecHystAnyOrder == InitHystAnyOrder /\ [][NextHystAnyOrder]_vars

(***************************************************************************)
(* otsu_threshold called on its own, one action per candidate threshold.   *)
(***************************************************************************)
\* squares of the pixel values 0, 1, 2, 3
OtsuSamples == {0, 1, 4, 9}

InitOtsu ==
    /\ pc = "otsu_threshold"
    /\ \E n \in 1 .. MaxOtsuPixels :
          \E sq \in [{0} \X (0 .. n - 1) -> OtsuSamples] :
             LET img == [sq |-> sq, den |-> 1, scale |-> 1]
             IN  \E cast \in CastsFor(img) : otsu = OtsuStart(img, cast)
    /\ image = Unset
    /\ gauss = Unset
    /\ gradient_magnitude = Unset
    /\ gradient_angle = Unset
    /\ potential_edges = Unset
    /\ upper_threshold = Unset
    /\ strong_edges = Unset
    /\ weak_edges = Unset
    /\ edges = Unset
    /\ pixel_queue = Unset
    /\ check_pixel = Unset
    /\ accessed = Unset
    /\ promotions = Unset

otsu_candidate ==
    /\ pc = "otsu_threshold"
    /\ otsu.t < Buckets
    /\ otsu' = OtsuIteration(otsu)
    /\ UNCHANGED <<pc, image, gauss, gradient_magnitude, gradient_angle,
                   potential_edges, upper_threshold, strong_edges, weak_edges,
                   edges, pixel_queue, check_pixel, accessed, promotions>>

otsu_return ==
    /\ pc = "otsu_threshold"
    /\ otsu.t = Buckets
    /\ pc' = "otsu_returned"
    /\ upper_threshold' = otsu.threshold
    /\ UNCHANGED <<image, gauss, gradient_magnitude, gradient_angle,
                   potential_edges, strong_edges, weak_edges, edges, pixel_queue,
                   check_pixel, accessed, promotions, otsu>>

NextOtsu == otsu_candidate \/ otsu_return

SpecOtsu == InitOtsu /\ [][NextOtsu]_vars

(***************************************************************************)
(* Properties.                                                             *)
(***************************************************************************)
\* the first and last row and the first and last column of an array
Border(a) == DOMAIN a \ Interior(a)

\* two pixels of the grid that touch by a side or a corner
Adjacent(p, q) == p # q /\ Abs(p[1] - q[1]) <= 1 /\ Abs(p[2] - q[2]) <= 1

\* the pixels of S and the pixels joined to S by a chain of weak pixels of
\* `weak`, consecutive pixels of the chain being adjacent inside the grid
RECURSIVE Linked(_, _)
Linked(S, weak) ==
    LET more == {p \in DOMAIN weak : /\ weak[p] = WEAK
                                     /\ p \notin S
                                     /\ \E q \in S : Adjacent(p, q)}
    IN  IF more = {} THEN S ELSE Linked(S \cup more, weak)

StrongInput == {p \in DOMAIN strong_edges : strong_edges[p] = STRONG}

InHysteresis == pc \in {"work_loop", "IndexError", "returned"}

Degenerate ==
    \/ gauss # Unset /\ gauss.den = 0
    \/ gradient_magnitude # Unset /\ gradient_magnitude.den = 0
    \/ potential_edges # Unset /\ potential_edges.den = 0

\* C1: the map canny returns has the shape of the input image and every
\* pixel of it is 0 or 255.
C1_BinaryMap ==
    pc = "returned" =>
        /\ DOMAIN edges = DOMAIN image
        /\ \A p \in DOMAIN edges : edges[p] \in {0, STRONG}

\* canny returns a map in which a weak pixel was dropped and an edge kept
C1_Witness ==
    /\ pc = "returned"
    /\ \E p \in DOMAIN edges : edges[p] = STRONG
    /\ \E p \in DOMAIN edges : weak_edges[p] = WEAK /\ edges[p] = 0

\* C2: in the map canny returns, every pixel of the first and last row and
\* of the first and last column is 0.
C2_BorderZero ==
    pc = "returned" => \A p \in Border(edges) : edges[p] = 0

\* C3: when edge_hysteresis has returned, every pixel that is 255 was strong
\* in the input or is joined to a strong input pixel by a chain of weak
\* input pixels adjacent inside the grid.
C3_Connected ==
    pc = "returned" =>
        \A p \in DOMAIN edges :
            edges[p] = STRONG => p \in Linked(StrongInput, weak_edges)

\* C4: within a call of edge_hysteresis a pixel that holds 255 holds 255
\* after every later step, and the 255 pixels of the returned map include
\* the 255 pixels of the input strong map.
C4_StrongStays ==
    /\ [][pc = "work_loop" =>
            \A p \in DOMAIN edges : edges[p] = STRONG => edges'[p] = STRONG]_vars
    /\ [](pc = "returned" => \A p \in StrongInput : edges[p] = STRONG)

\* edge_hysteresis has returned after promoting a weak pixel beside a
\* strong input pixel
C4_Witness ==
    /\ pc = "returned"
    /\ StrongInput # {}
    /\ \E p \in DOMAIN edges : promotions[p] > 0 /\ edges[p] = STRONG

\* C5: when a normalisation divided by a maximum of 0, canny does not
\* return an edge map.
C5_DegenerateFails == pc = "returned" => ~Degenerate

\* C6: non_maximum_suppression leaves gradient_magnitude and gradient_angle
\* as they were at the call, and double_threshold leaves potential_edges and
\* gradient_magnitude as they were at the call.
C6_InputsKept ==
    [][/\ pc = "non_maximum_suppression" =>
            gradient_magnitude' = gradient_magnitude /\ gradient_angle' = gradient_angle
       /\ pc = "double_threshold" =>
            potential_edges' = potential_edges /\ gradient_magnitude' = gradient_magnitude]_vars

\* C7: in otsu_threshold the candidate whose q2 = 0 was replaced by 1 never
\* sets the threshold.
C7_NeverReplaced ==
    pc \in {"otsu_threshold", "otsu_returned"} => ~otsu.replaced_q2

\* C8: the work loop of edge_hysteresis ends with the queue empty, each
\* pixel is promoted at most once, and the promotions are at most H x W.
C8_LoopDrains ==
    /\ pc \in {"edge_hysteresis", "work_loop"} \/ (pc = "returned" /\ pixel_queue = <<>>)
    /\ InHysteresis =>
          /\ \A p \in DOMAIN promotions : promotions[p] <= 1
          /\ Cardinality({p \in DOMAIN promotions : promotions[p] > 0})
                 <= NRows(edges) * NCols(edges)

\* C9: whatever the order in which the queue is emptied and the neighbours
\* are visited, the map edge_hysteresis returns is 255 on the strong input
\* pixels and on the weak pixels joined to them through weak pixels inside
\* the grid, and 0 elsewhere.
C9_SameMap ==
    pc = "returned" =>
        edges = [p \in DOMAIN edges |->
                    IF p \in Linked(StrongInput, weak_edges) THEN STRONG ELSE 0]

\* C10: on the maps double_threshold produces, every coordinate
\* edge_hysteresis indexes lies inside the grid, and no pixel of the first or
\* last row or column is taken from the queue.
C10_InsideGrid ==
    InHysteresis =>
        /\ accessed \subseteq DOMAIN edges
        /\ check_pixel # Unset => check_pixel \in Interior(edges)

====
